---- MODULE Spec2Model ----
(***************************************************************************)
(* Verification model of the Gmail-to-Obsidian ingestion service:          *)
(*   - the scan job pipeline (worker task, scan API, guardian daemon),     *)
(*   - the Redis token bucket of the Gmail rate limiter,                   *)
(*   - the Claude batch poller.                                            *)
(* Every definition is translated from the Python source; the source      *)
(* place is given next to it.                                              *)
(***************************************************************************)
EXTENDS Integers, Sequences, FiniteSets, TLC

(***************************************************************************)
(* Bounds of the model                                                     *)
(***************************************************************************)
MaxTasks == 1
MaxJobs == 2
MaxRedeliveries == 1
PageSize == 1
MaxStarts == 2
MaxPageRows == 2
MaxContacts == 3
MaxMerges == 2
MaxFrameContacts == 2

(***************************************************************************)
(* Program constants                                                       *)
(***************************************************************************)
EmailsStartPct == 15
EmailsCapPct == 40
EmailsAccountSpan == 30
EmailsCountSpan == 10
EmailsCountScale == 10000
\* a themes start value below the emails start value
ThemesStartPctLow == EmailsStartPct - 5
\* tasks.py:348 job.progress_pct = 40
ThemesStartPct == 40
VaultStartPct == 70

Users == {"u1"}
Labels == {"personal", "procore-main"}
None == 0

Terminal == {"completed", "failed", "cancelled"}
NonTerminal == {"queued", "running"}

\* src/models/job.py:39-43 and tasks.py:484: the values phase takes, in order
PhaseOrder == <<"contacts", "emails", "themes", "vault", "completed">>

PhaseRank(p) == CHOOSE k \in 1..Len(PhaseOrder) : PhaseOrder[k] = p

\* a themes step that would write the first phase again
ThemesPhaseBack == "contacts"

\* tasks.py:347 job.phase = "themes"
ThemesPhase == "themes"

\* Exceptions that escape a step of scan_gmail_task
ExcNoAccounts == "ValueError: No active accounts found"
ExcUserMissing == "ValueError: User not found"
ExcUserForeignKey == "IntegrityError: sync_jobs.user_id violates foreign key constraint"
ExcProvider == "GmailClientError: Failed to fetch email IDs"
ExcWaitKwarg == "TypeError: wait_for_token() got an unexpected keyword argument 'tokens'"
ExcSubscript == "TypeError: 'Email' object is not subscriptable"
ExcMergedContacts == "NameError: name 'merged_contacts' is not defined"

MsgCancelled == "Job cancelled by user"
MsgKilled == "Auto-killed by guardian: Job was stuck with no progress"

(***************************************************************************)
(* Provider data: a mailbox is the account's messages, newest first        *)
(* (tasks.py:205).  A date is an instant; two instants make a day.         *)
(***************************************************************************)
DayOf(date) == date \div 2

Mailboxes ==
    { [personal |-> <<>>, main |-> <<>>],
      [personal |-> <<>>, main |-> << [mid |-> 3, date |-> 2] >>],
      [personal |-> << [mid |-> 2, date |-> 5], [mid |-> 1, date |-> 2] >>,
       main |-> <<>>],
      [personal |-> << [mid |-> 2, date |-> 5], [mid |-> 1, date |-> 4] >>,
       main |-> <<>>] }

VARIABLES
    accounts_active,   \* GmailAccount.is_active per label
    mailbox,           \* provider data per label
    emails,            \* rows of table emails
    jobs,              \* rows of table sync_jobs, in creation order
    tasks,             \* Celery messages of scan_gmail_task, with their history:
                       \* crashed_in_fetch (the worker was lost during a fetch),
                       \* fetched_once (an emails phase of the task ran to its end)
    exec,              \* the execution of each task (locals of scan_gmail_task)
    raised,            \* exception re-raised to the executor, per task
    vault_initialized, \* ObsidianVaultManager.initialize_vault has run
    guardian_target,   \* job id the guardian read as running_job
    cancelled_ok,      \* jobs for which cancel_job returned success
    bucket,            \* Redis keys of the rate limiter: tokens and last_refill
    clock,             \* time.time(), in ticks of 1/refill_rate seconds
    acq,               \* each caller's position in acquire() and its locals
    granted,           \* number of acquire() calls that returned True
    calls,             \* number of acquire() calls started
    batch,             \* the submitted batch as the classifier holds it
    poll,              \* the poll_batch_results call: attempts, outcome, results
    email_tags,        \* rows of table email_tags
    email_notes,       \* ids of the emails whose note file is written in the vault
    theme_loop,        \* one pass of the theme loop over a batch: input and outcome
    contacts,          \* rows of table contacts
    merge,             \* the merge_contacts_by_email calls: last input and result
    client             \* one GmailClient call: method, attempts, waits and requests

jobvars == <<accounts_active, mailbox, emails, jobs, tasks, exec, raised,
             vault_initialized, guardian_target, cancelled_ok>>

limvars == <<bucket, clock, acq, granted, calls>>

pollvars == <<batch, poll>>

themevars == <<email_tags, email_notes, theme_loop>>

mergevars == <<contacts, merge>>

clientvars == <<client>>

vars == <<accounts_active, mailbox, emails, jobs, tasks, exec, raised,
          vault_initialized, guardian_target, cancelled_ok,
          bucket, clock, acq, granted, calls, batch, poll,
          email_tags, email_notes, theme_loop, contacts, merge, client>>

MailboxOf(label) == IF label = "personal" THEN mailbox.personal ELSE mailbox.main

(***************************************************************************)
(* Sequence helpers                                                        *)
(***************************************************************************)
Orderings(S) ==
    { s \in [1..Cardinality(S) -> S] : \A a \in S : \E k \in DOMAIN s : s[k] = a }

SetMax(S) == CHOOSE x \in S : \A y \in S : y <= x

IdleExec == [pc |-> "idle", job |-> None, accounts |-> <<>>, i |-> 0,
             query |-> None, page_token |-> 0, all_emails |-> <<>>,
             total_emails_fetched |-> 0, refetched |-> 0, insert_errors |-> 0]

(***************************************************************************)
(* tasks.py:37-50  get_last_processed_email_date                           *)
(***************************************************************************)
get_last_processed_email_date(store, account) ==
    LET dates == { e.date : e \in { r \in store : r.account = account } }
    IN IF dates = {} THEN None ELSE SetMax(dates)

\* tasks.py:207-212: gmail_query = "after:" + last_email_date.strftime("%Y/%m/%d")
\* The query keeps the day of the date only; None when nothing is stored
\* (every date of a mailbox is at least 2, so no day is 0).
GmailQuery(last_email_date) ==
    IF last_email_date = None THEN None ELSE DayOf(last_email_date)

\* Provider listing for a query (client.py:180-190): every message when the
\* query is None, else the messages whose day is not before the query's day.
QueryMatches(m, query) == query = None \/ DayOf(m.date) >= query

Listing(label, query) ==
    LET match(m) == QueryMatches(m, query) IN SelectSeq(MailboxOf(label), match)

\* client.py:151-192 fetch_emails_chunked: one page of ids and the next token
fetch_emails_chunked(label, query, page_token) ==
    LET all == Listing(label, query)
        from == page_token + 1
        to == IF page_token + PageSize < Len(all) THEN page_token + PageSize ELSE Len(all)
    IN [message_ids |-> SubSeq(all, from, to),
        next_page_token |-> IF to < Len(all) THEN to ELSE None]

(***************************************************************************)
(* rate_limiter.py:131 declares wait_for_token(self, timeout=60.0);        *)
(* client.py:252 calls wait_for_token(tokens=len(message_ids)).  The       *)
(* keyword is not a parameter of the method, so the call raises TypeError  *)
(* before anything is fetched.                                             *)
(***************************************************************************)
WaitForTokenParams == {"timeout"}

\* a wait that would take any keyword
WaitForTokenAcceptsAll(kwargs) == TRUE

\* rate_limiter.py:131: the keywords the declared signature binds
WaitForTokenAccepts(kwargs) == kwargs \subseteq WaitForTokenParams

\* client.py:197-252 fetch_message_batch -> _fetch_batch_chunk: the limiter
\* wait comes first; with_retry re-raises the TypeError after its attempts.
fetch_message_batch(message_ids) ==
    IF message_ids = <<>> THEN [exc |-> "", email_dicts |-> <<>>]
    ELSE IF WaitForTokenAccepts({"tokens"})
         THEN [exc |-> "", email_dicts |-> message_ids]
         ELSE [exc |-> ExcWaitKwarg, email_dicts |-> <<>>]

\* tasks.py:273-274 progress of the emails phase, i zero-based
EmailsProgress(i, n, total) ==
    LET p == (i * EmailsAccountSpan * (EmailsCountScale \div EmailsCountSpan) + total * n)
             \div (n * (EmailsCountScale \div EmailsCountSpan))
    IN IF p < EmailsCapPct THEN p ELSE EmailsCapPct

\* an insert that would keep every row
InsertAll(store, rows) == store \cup { rows[k] : k \in DOMAIN rows }

\* tasks.py:313-317 INSERT ... ON CONFLICT (account_id, gmail_message_id) DO NOTHING
InsertOnConflictDoNothing(store, rows) ==
    LET RECURSIVE Ins(_, _)
        Ins(st, k) ==
            IF k > Len(rows) THEN st
            ELSE IF \E r \in st : r.account = rows[k].account /\ r.mid = rows[k].mid
                 THEN Ins(st, k + 1)
                 ELSE Ins(st \cup {rows[k]}, k + 1)
    IN Ins(store, 1)

(***************************************************************************)
(* Initial state: empty tables, every account authenticated, no task.      *)
(***************************************************************************)
JobInit(boxes) ==
    /\ accounts_active = [a \in Labels |-> TRUE]
    /\ mailbox \in boxes
    /\ emails = {}
    /\ jobs = <<>>
    /\ tasks = <<>>
    /\ exec = <<>>
    /\ raised = <<>>
    /\ vault_initialized = FALSE
    /\ guardian_target = None
    /\ cancelled_ok = {}

JobIds == 1..Len(jobs)
TaskIds == 1..Len(tasks)

\* scan.py:88-96 / tasks.py:140-148: active accounts of the user among the labels
ActiveAccounts(labels) == { a \in labels : accounts_active[a] }

\* scan.py:107-114: a job of the user with status queued or running
ExistingJob(user) ==
    { j \in JobIds : jobs[j].user = user /\ jobs[j].status \in NonTerminal }

(***************************************************************************)
(* scan.py:63-138  start_scan.  Rejections (404, 400, 409) change nothing. *)
(***************************************************************************)
StartScanWithin(user, labels, limit) ==
    /\ Len(tasks) < limit
    /\ user \in Users
    /\ ActiveAccounts(labels) = labels
    /\ ExistingJob(user) = {}
    /\ tasks' = Append(tasks, [user |-> user, labels |-> labels, state |-> "queued",
                               deliveries |-> 0, revoked |-> FALSE,
                               crashed_in_fetch |-> FALSE, fetched_once |-> FALSE])
    /\ exec' = Append(exec, IdleExec)
    /\ raised' = Append(raised, "")
    /\ UNCHANGED <<limvars, pollvars, themevars, mergevars, clientvars>>
    /\ UNCHANGED <<accounts_active, mailbox, emails, jobs, vault_initialized,
                   guardian_target, cancelled_ok>>

StartScan(user, labels) == StartScanWithin(user, labels, MaxTasks)

(***************************************************************************)
(* A worker takes the message from the broker.  A revoked task is          *)
(* discarded instead of being run.                                         *)
(***************************************************************************)
Pickup(t) ==
    /\ tasks[t].state = "queued"
    /\ IF tasks[t].revoked
       THEN /\ tasks' = [tasks EXCEPT ![t].state = "revoked"]
            /\ UNCHANGED exec
       ELSE /\ tasks' = [tasks EXCEPT ![t].state = "executing",
                                      ![t].deliveries = @ + 1]
            /\ exec' = [exec EXCEPT ![t] = [IdleExec EXCEPT !.pc = "create"]]
    /\ UNCHANGED <<limvars, pollvars, themevars, mergevars, clientvars>>
    /\ UNCHANGED <<accounts_active, mailbox, emails, jobs, raised, vault_initialized,
                   guardian_target, cancelled_ok>>

\* tasks.py:121-133: the SyncJob row the task creates
NewJob(user, t) ==
    [user |-> user, task |-> t, status |-> "running", phase |-> "contacts",
     progress_pct |-> 0, emails_processed |-> 0, emails_total |-> None,
     error_message |-> "", completed_at |-> FALSE]

(***************************************************************************)
(* tasks.py:503-512: the except handler.  It marks the job failed, stores  *)
(* the message, sets completed_at, commits and re-raises; the task is then *)
(* acknowledged as failed.                                                 *)
(***************************************************************************)
FailedJob(job, exc) ==
    [job EXCEPT !.status = "failed", !.error_message = exc, !.completed_at = TRUE]

\* a handler that would leave completed_at as it is
HandlerNoTimestamp(job, exc) ==
    [job EXCEPT !.status = "failed", !.error_message = exc]

\* tasks.py:506-510
Handler(job, exc) == FailedJob(job, exc)

Fail(t, exc, base) ==
    /\ jobs' = IF exec[t].job # None
               THEN [base EXCEPT ![exec[t].job] = Handler(base[exec[t].job], exc)]
               ELSE base
    /\ raised' = [raised EXCEPT ![t] = exc]
    /\ tasks' = [tasks EXCEPT ![t].state = "failed"]
    /\ exec' = [exec EXCEPT ![t].pc = "done"]

Running(t, pc) == tasks[t].state = "executing" /\ exec[t].pc = pc

\* tasks.py:135-151: user and accounts; .all() returns the rows in no stated order
\* tasks.py:120-131: the job row is inserted and committed before the user
\* is looked up (134-136); sync_jobs.user_id references users.id (job.py:28),
\* so for a user that does not exist the commit raises and no row is stored.
\* The handler (503-512) then changes an object that is in no table.
CreateJob(t) ==
    /\ tasks[t].state = "executing"
    /\ exec[t].pc = "create"
    /\ IF tasks[t].user \in Users
       THEN /\ Len(jobs) < MaxJobs
            /\ jobs' = Append(jobs, NewJob(tasks[t].user, t))
            /\ exec' = [exec EXCEPT ![t].pc = "load", ![t].job = Len(jobs) + 1]
            /\ UNCHANGED <<tasks, raised>>
       ELSE Fail(t, ExcUserForeignKey, jobs)
    /\ UNCHANGED <<limvars, pollvars, themevars, mergevars, clientvars>>
    /\ UNCHANGED <<accounts_active, mailbox, emails, vault_initialized,
                   guardian_target, cancelled_ok>>

LoadAccounts(t) ==
    /\ Running(t, "load")
    /\ IF tasks[t].user \notin Users
       THEN Fail(t, ExcUserMissing, jobs)
       ELSE IF ActiveAccounts(tasks[t].labels) = {}
       THEN Fail(t, ExcNoAccounts, jobs)
       ELSE /\ \E order \in Orderings(ActiveAccounts(tasks[t].labels)) :
                   exec' = [exec EXCEPT ![t].pc = "emails_begin", ![t].accounts = order]
            /\ UNCHANGED <<jobs, raised, tasks>>
    /\ UNCHANGED <<limvars, pollvars, themevars, mergevars, clientvars>>
    /\ UNCHANGED <<accounts_active, mailbox, emails, vault_initialized,
                   guardian_target, cancelled_ok>>

\* tasks.py:183-190
EmailsBegin(t) ==
    /\ Running(t, "emails_begin")
    /\ jobs' = [jobs EXCEPT ![exec[t].job].phase = "emails",
                            ![exec[t].job].progress_pct = EmailsStartPct]
    /\ exec' = [exec EXCEPT ![t].pc = "account", ![t].i = 1]
    /\ UNCHANGED <<limvars, pollvars, themevars, mergevars, clientvars>>
    /\ UNCHANGED <<accounts_active, mailbox, emails, tasks, raised, vault_initialized,
                   guardian_target, cancelled_ok>>

\* tasks.py:192-227: resume query of the next account, or the end of the loop
AccountResume(t) ==
    /\ Running(t, "account")
    /\ IF exec[t].i > Len(exec[t].accounts)
       THEN exec' = [exec EXCEPT ![t].pc = "emails_end"]
       ELSE exec' = [exec EXCEPT
                ![t].pc = "page",
                ![t].page_token = None,
                ![t].query = GmailQuery(get_last_processed_email_date(
                                 emails, exec[t].accounts[exec[t].i]))]
    /\ UNCHANGED <<limvars, pollvars, themevars, mergevars, clientvars>>
    /\ UNCHANGED <<accounts_active, mailbox, emails, jobs, tasks, raised,
                   vault_initialized, guardian_target, cancelled_ok>>

\* tasks.py:253-268: Email objects of a page; ids are fresh uuids
\* the fetched messages that the store already holds (tasks.py:313-317 skips them)
AlreadyStored(store, label, email_dicts) ==
    { k \in DOMAIN email_dicts :
        \E r \in store : r.account = label /\ r.mid = email_dicts[k].mid }

NewEmails(t, label, email_dicts) ==
    [k \in 1..Len(email_dicts) |->
        [id |-> <<exec[t].job, Len(exec[t].all_emails) + k>>, account |-> label,
         mid |-> email_dicts[k].mid, date |-> email_dicts[k].date]]

ExcInsert == "SQLAlchemyError: insert into emails failed"

\* a handler that lets the insert error leave the loop
InsertErrorRaised(exc) == exc

\* tasks.py:322-330 except Exception: log, db.rollback(), go on; nothing is
\* raised out of the try statement
InsertErrorCaught(exc) == ""

(***************************************************************************)
(* tasks.py:228-337: one turn of the page loop.  ListedPage is the call of *)
(* line 230, got the outcome of the call of line 245; insert_errors counts *)
(* the "Error inserting emails" lines logged.                              *)
(***************************************************************************)
ListedPage(t) ==
    fetch_emails_chunked(exec[t].accounts[exec[t].i], exec[t].query, exec[t].page_token)

FetchPageGiven(t, list_ok, insert_ok, got) ==
    /\ Running(t, "page")
    /\ LET label == exec[t].accounts[exec[t].i]
           page == ListedPage(t)
           new_emails == NewEmails(t, label, got.email_dicts)
           total == exec[t].total_emails_fetched + Len(got.email_dicts)
           progress == EmailsProgress(exec[t].i - 1, Len(exec[t].accounts), total)
           committed == [jobs EXCEPT ![exec[t].job].progress_pct = progress,
                                     ![exec[t].job].emails_processed = total]
           insert_exc == IF insert_ok \/ new_emails = <<>> THEN ""
                         ELSE InsertErrorCaught(ExcInsert)
       IN IF ~list_ok
          THEN Fail(t, ExcProvider, jobs) /\ UNCHANGED emails
          ELSE IF page.message_ids = <<>>
          THEN /\ exec' = [exec EXCEPT ![t].pc = "account", ![t].i = @ + 1]
               /\ UNCHANGED <<jobs, raised, tasks, emails>>
          ELSE IF got.exc # ""
          THEN Fail(t, got.exc, jobs) /\ UNCHANGED emails
          ELSE IF insert_exc # ""
          THEN Fail(t, insert_exc, committed) /\ UNCHANGED emails
          ELSE /\ jobs' = committed
               /\ emails' = IF insert_ok /\ new_emails # <<>>
                            THEN InsertOnConflictDoNothing(emails, new_emails)
                            ELSE emails
               /\ exec' = [exec EXCEPT
                        ![t].all_emails = @ \o new_emails,
                        ![t].total_emails_fetched = total,
                        ![t].insert_errors =
                            IF insert_ok \/ new_emails = <<>> THEN @ ELSE @ + 1,
                        ![t].refetched =
                            @ + Cardinality(AlreadyStored(emails, label, got.email_dicts)),
                        ![t].page_token = page.next_page_token,
                        ![t].pc = IF page.next_page_token # None THEN "page" ELSE "account",
                        ![t].i = IF page.next_page_token # None THEN @ ELSE @ + 1]
               /\ UNCHANGED <<raised, tasks>>
    /\ UNCHANGED <<limvars, pollvars, themevars, mergevars, clientvars>>
    /\ UNCHANGED <<accounts_active, mailbox, vault_initialized, guardian_target,
                   cancelled_ok>>

\* tasks.py:245: the details come from GmailClient.fetch_message_batch
FetchPage(t, list_ok, insert_ok) ==
    FetchPageGiven(t, list_ok, insert_ok, fetch_message_batch(ListedPage(t).message_ids))

\* tasks.py:339-341
EmailsEnd(t) ==
    /\ Running(t, "emails_end")
    /\ jobs' = [jobs EXCEPT ![exec[t].job].emails_total = Len(exec[t].all_emails)]
    /\ exec' = [exec EXCEPT ![t].pc = "themes_begin"]
    /\ tasks' = [tasks EXCEPT ![t].fetched_once = TRUE]
    /\ UNCHANGED <<limvars, pollvars, themevars, mergevars, clientvars>>
    /\ UNCHANGED <<accounts_active, mailbox, emails, raised, vault_initialized,
                   guardian_target, cancelled_ok>>

(***************************************************************************)
(* tasks.py:346-364: start of the themes phase.  With no fetched email     *)
(* there is no batch; with a batch, process_emails_sync subscripts the     *)
(* Email objects (batch_processor.py:72), which raises TypeError.          *)
(***************************************************************************)
ThemesBegin(t) ==
    /\ Running(t, "themes_begin")
    /\ LET committed == [jobs EXCEPT ![exec[t].job].phase = ThemesPhase,
                                     ![exec[t].job].progress_pct = ThemesStartPct]
       IN IF exec[t].all_emails = <<>>
          THEN /\ jobs' = committed
               /\ exec' = [exec EXCEPT ![t].pc = "vault_begin"]
               /\ UNCHANGED <<raised, tasks>>
          ELSE Fail(t, ExcSubscript, committed)
    /\ UNCHANGED <<limvars, pollvars, themevars, mergevars, clientvars>>
    /\ UNCHANGED <<accounts_active, mailbox, emails, vault_initialized,
                   guardian_target, cancelled_ok>>

\* tasks.py:412-415
VaultBegin(t) ==
    /\ Running(t, "vault_begin")
    /\ jobs' = [jobs EXCEPT ![exec[t].job].phase = "vault",
                            ![exec[t].job].progress_pct = VaultStartPct]
    /\ exec' = [exec EXCEPT ![t].pc = "vault_generate"]
    /\ UNCHANGED <<limvars, pollvars, themevars, mergevars, clientvars>>
    /\ UNCHANGED <<accounts_active, mailbox, emails, tasks, raised, vault_initialized,
                   guardian_target, cancelled_ok>>

(***************************************************************************)
(* tasks.py:418-428: the vault is initialised, then the contact loop reads *)
(* merged_contacts, a name the function never binds: NameError.            *)
(***************************************************************************)
VaultGenerate(t) ==
    /\ Running(t, "vault_generate")
    /\ vault_initialized' = TRUE
    /\ Fail(t, ExcMergedContacts, jobs)
    /\ UNCHANGED <<limvars, pollvars, themevars, mergevars, clientvars>>
    /\ UNCHANGED <<accounts_active, mailbox, emails, guardian_target, cancelled_ok>>

(***************************************************************************)
(* celery_app.py:30-31 task_acks_late with task_reject_on_worker_lost: when *)
(* the worker process dies, the message goes back to the queue; the job    *)
(* row it had created stays as it was.                                     *)
(***************************************************************************)
WorkerLost(t) ==
    /\ tasks[t].state = "executing"
    /\ tasks[t].deliveries <= MaxRedeliveries
    /\ tasks' = [tasks EXCEPT ![t].state = "queued",
                               ![t].crashed_in_fetch = @ \/ exec[t].pc \in {"account", "page"}]
    /\ exec' = [exec EXCEPT ![t] = IdleExec]
    /\ UNCHANGED <<limvars, pollvars, themevars, mergevars, clientvars>>
    /\ UNCHANGED <<accounts_active, mailbox, emails, jobs, raised, vault_initialized,
                   guardian_target, cancelled_ok>>

\* scan.py:298 revoke(terminate=True) reaching the worker: the process
\* running the task is killed; a revoked task is not redelivered.
Terminate(t) ==
    /\ tasks[t].state = "executing"
    /\ tasks[t].revoked
    /\ tasks' = [tasks EXCEPT ![t].state = "revoked"]
    /\ exec' = [exec EXCEPT ![t].pc = "terminated"]
    /\ UNCHANGED <<limvars, pollvars, themevars, mergevars, clientvars>>
    /\ UNCHANGED <<accounts_active, mailbox, emails, jobs, raised, vault_initialized,
                   guardian_target, cancelled_ok>>

(***************************************************************************)
(* scan.py:264-315  cancel_job.  A job that is not queued or running is    *)
(* rejected (400) and nothing changes.                                     *)
(***************************************************************************)
CancelledJob(job) ==
    [job EXCEPT !.status = "cancelled", !.error_message = MsgCancelled,
                !.completed_at = TRUE]

\* a cancel that would skip the status test of scan.py:290
cancel_job_unchecked(table, j) ==
    [code |-> 200, revoke |-> TRUE, jobs |-> [table EXCEPT ![j] = CancelledJob(table[j])]]

\* scan.py:287-311: the response code, whether the task is revoked, and the
\* job table after the request, for the job found under job_id
cancel_job(table, j) ==
    IF table[j].status \notin {"queued", "running"}
    THEN [code |-> 400, revoke |-> FALSE, jobs |-> table]
    ELSE [code |-> 200, revoke |-> TRUE, jobs |-> [table EXCEPT ![j] = CancelledJob(table[j])]]

CancelJob(j) ==
    /\ j \in JobIds
    /\ cancel_job(jobs, j).code = 200
    /\ tasks' = [tasks EXCEPT ![jobs[j].task].revoked = cancel_job(jobs, j).revoke]
    /\ jobs' = cancel_job(jobs, j).jobs
    /\ cancelled_ok' = cancelled_ok \cup {j}
    /\ UNCHANGED <<limvars, pollvars, themevars, mergevars, clientvars>>
    /\ UNCHANGED <<accounts_active, mailbox, emails, exec, raised, vault_initialized,
                   guardian_target>>

(***************************************************************************)
(* autonomous_guardian.py:55-112, 215-218: the guardian reads the latest   *)
(* running job and judges it stuck (a matter of elapsed time).             *)
(***************************************************************************)
RunningJobs == { j \in JobIds : jobs[j].status = "running" }

GuardianObserve ==
    /\ guardian_target = None
    /\ RunningJobs # {}
    /\ guardian_target' = SetMax(RunningJobs)
    /\ UNCHANGED <<limvars, pollvars, themevars, mergevars, clientvars>>
    /\ UNCHANGED <<accounts_active, mailbox, emails, jobs, tasks, exec, raised,
                   vault_initialized, cancelled_ok>>

\* a kill that writes nothing
KilledJobUntouched(job) == job

\* autonomous_guardian.py:150-152: status and error_message, no completed_at
KilledJob(job) == [job EXCEPT !.status = "failed", !.error_message = MsgKilled]

\* autonomous_guardian.py:145-159  kill_stuck_job
GuardianKill ==
    /\ guardian_target # None
    /\ jobs' = [jobs EXCEPT ![guardian_target] = KilledJob(@)]
    /\ guardian_target' = None
    /\ UNCHANGED <<limvars, pollvars, themevars, mergevars, clientvars>>
    /\ UNCHANGED <<accounts_active, mailbox, emails, tasks, exec, raised,
                   vault_initialized, cancelled_ok>>

\* integrations/gmail/auth.py:258-270  revoke_credentials
RevokeCredentials(a) ==
    /\ accounts_active[a]
    /\ accounts_active' = [accounts_active EXCEPT ![a] = FALSE]
    /\ UNCHANGED <<limvars, pollvars, themevars, mergevars, clientvars>>
    /\ UNCHANGED <<mailbox, emails, jobs, tasks, exec, raised, vault_initialized,
                   guardian_target, cancelled_ok>>

LabelSets == { {"personal"}, {"personal", "procore-main"} }

(***************************************************************************)
(* Rate limiter (integrations/gmail/rate_limiter.py).  Time is counted in  *)
(* ticks of 1/refill_rate seconds, so one token is refilled per tick.      *)
(***************************************************************************)
max_tokens == 3
RefillPerTick == 1
MaxClock == 2
MaxCalls == 4
MaxBurst == 6
SleepsPerTick == 4

Callers == {"w1", "w2"}
TokenRequests == {1, 2}
\* a caller: its position in acquire(), the locals of the call, and the log of
\* its finished calls (clock at entry, clock at return, result)
NoWait == [pc |-> "none", start_time |-> 0, timeout |-> 0, tries |-> 0, got |-> 0,
           naps |-> 0]

IdleAcq == [pc |-> "idle", tokens |-> 1, current_tokens |-> 0, last_refill |-> 0,
            result |-> "none", started |-> 0, log |-> <<>>, wait |-> NoWait]

LimIdle ==
    /\ bucket = [present |-> FALSE, tokens |-> 0, last_refill |-> 0]
    /\ clock = 0
    /\ acq = [c \in Callers |-> IdleAcq]
    /\ granted = 0
    /\ calls = 0

Min(a, b) == IF a < b THEN a ELSE b

\* rate_limiter.py:69-84 _get_current_tokens: a missing key reads as a full
\* bucket, a missing timestamp as the current time.
get_current_tokens(c, n) ==
    [acq[c] EXCEPT
        !.pc = "refill", !.tokens = n,
        !.current_tokens = IF bucket.present THEN bucket.tokens ELSE max_tokens,
        !.last_refill = IF bucket.present THEN bucket.last_refill ELSE clock,
        !.result = "none", !.started = clock]

AcquireReadWithin(c, n, limit) ==
    /\ acq[c].pc = "idle"
    /\ calls < limit
    /\ calls' = calls + 1
    /\ acq' = [acq EXCEPT ![c] = get_current_tokens(c, n)]
    /\ UNCHANGED <<bucket, clock, granted>>
    /\ UNCHANGED <<jobvars, pollvars, themevars, mergevars, clientvars>>

AcquireRead(c, n) == AcquireReadWithin(c, n, MaxCalls)

\* rate_limiter.py:94-107 _refill_tokens: the refilled count and the time are
\* written back with plain SETs
AcquireRefill(c) ==
    /\ acq[c].pc = "refill"
    /\ LET elapsed == clock - acq[c].last_refill
           new_tokens == Min(acq[c].current_tokens + elapsed * RefillPerTick, max_tokens)
       IN /\ bucket' = [present |-> TRUE, tokens |-> new_tokens, last_refill |-> clock]
          /\ acq' = [acq EXCEPT ![c].pc = "take", ![c].current_tokens = new_tokens]
    /\ UNCHANGED <<clock, granted, calls>>
    /\ UNCHANGED <<jobvars, pollvars, themevars, mergevars, clientvars>>

\* a test that would ask for more than the request
HasTokensStrict(current_tokens, tokens) == current_tokens > tokens

\* rate_limiter.py:122 if current_tokens >= tokens
HasTokens(current_tokens, tokens) == current_tokens >= tokens

Returned(c, result) ==
    [acq[c] EXCEPT !.pc = "idle", !.result = result,
                   !.log = Append(@, [start |-> acq[c].started, end |-> clock,
                                      result |-> result])]

\* rate_limiter.py:122-129 acquire: compare the local count, SET the decrement
AcquireTake(c) ==
    /\ acq[c].pc = "take"
    /\ IF HasTokens(acq[c].current_tokens, acq[c].tokens)
       THEN /\ bucket' = [bucket EXCEPT !.tokens = acq[c].current_tokens - acq[c].tokens]
            /\ granted' = granted + acq[c].tokens
            /\ acq' = [acq EXCEPT ![c] = Returned(c, "true")]
       ELSE /\ acq' = [acq EXCEPT ![c] = Returned(c, "false")]
            /\ UNCHANGED <<bucket, granted>>
    /\ UNCHANGED <<clock, calls>>
    /\ UNCHANGED <<jobvars, pollvars, themevars, mergevars, clientvars>>

(***************************************************************************)
(* rate_limiter.py:131-154 wait_for_token.  The loop sleeps                *)
(* min(1/refill_rate, 0.1) seconds between attempts: with refill_rate 3 a  *)
(* tick of 1/refill_rate seconds holds at most SleepsPerTick attempts.     *)
(***************************************************************************)
WaitStart(c, timeout) ==
    /\ acq[c].pc = "idle"
    /\ acq[c].wait.pc = "none"
    /\ clock + timeout <= MaxClock
    /\ acq' = [acq EXCEPT ![c].wait =
                  [NoWait EXCEPT !.pc = "check", !.start_time = clock, !.timeout = timeout]]
    /\ UNCHANGED <<bucket, clock, granted, calls>>
    /\ UNCHANGED <<jobvars, pollvars, themevars, mergevars, clientvars>>

\* rate_limiter.py:143-144, 152: the loop test, then the entry into acquire()
\* or the raise of GmailRateLimitExceeded
WaitCheck(c) ==
    /\ acq[c].wait.pc = "check"
    /\ IF clock - acq[c].wait.start_time < acq[c].wait.timeout
       THEN acq' = [acq EXCEPT ![c] =
                      [get_current_tokens(c, 1) EXCEPT !.wait.pc = "acquire",
                                                       !.wait.tries = @ + 1]]
       ELSE acq' = [acq EXCEPT ![c].wait.pc = "raised"]
    /\ UNCHANGED <<bucket, clock, granted, calls>>
    /\ UNCHANGED <<jobvars, pollvars, themevars, mergevars, clientvars>>

\* a loop that would return whatever acquire() answered
WaitSucceededAlways(result) == TRUE

\* rate_limiter.py:144 if self.acquire(): return
WaitSucceeded(result) == result = "true"

WaitResult(c) ==
    /\ acq[c].wait.pc = "acquire"
    /\ acq[c].pc = "idle"
    /\ acq' = [acq EXCEPT
            ![c].wait.got = IF acq[c].result = "true" THEN @ + 1 ELSE @,
            ![c].wait.pc = IF WaitSucceeded(acq[c].result) THEN "returned" ELSE "sleep"]
    /\ UNCHANGED <<bucket, clock, granted, calls>>
    /\ UNCHANGED <<jobvars, pollvars, themevars, mergevars, clientvars>>

\* rate_limiter.py:149-150 time.sleep(sleep_time): the sleep ends in the same
\* tick or in the next one
WaitSleep(c, next_tick) ==
    /\ acq[c].wait.pc = "sleep"
    /\ IF next_tick
       THEN /\ clock < MaxClock
            /\ clock' = clock + 1
            /\ acq' = [acq EXCEPT ![c].wait.pc = "check", ![c].wait.naps = 0]
       ELSE /\ acq[c].wait.naps < SleepsPerTick - 1 \/ clock = MaxClock
            /\ acq' = [acq EXCEPT ![c].wait.pc = "check", ![c].wait.naps = @ + 1]
            /\ UNCHANGED clock
    /\ UNCHANGED <<bucket, granted, calls>>
    /\ UNCHANGED <<jobvars, pollvars, themevars, mergevars, clientvars>>

\* the passing of one tick of time
Tick ==
    /\ clock < MaxClock
    /\ clock' = clock + 1
    /\ UNCHANGED <<bucket, acq, granted, calls>>
    /\ UNCHANGED <<jobvars, pollvars, themevars, mergevars, clientvars>>

(***************************************************************************)
(* Batch poller (integrations/claude/batch_processor.py).                  *)
(***************************************************************************)
StopAfterAttempt == 60
MaxBatch == 2

CorrelationIds == {"m1", "m2"}
ResultTypes == {"succeeded", "errored", "canceled", "expired"}
Contents == {"full", "partial", "not_object", "bad_json", "no_text", "no_content"}
FinalStatuses == {"ended", "canceled", "expired"}

RequiredFields == {"explicit_topics", "implicit_interests", "relationship_context",
                   "action_items", "sentiment", "domains"}

\* batch_processor.py:275-284 _empty_themes
empty_themes ==
    [explicit_topics |-> <<>>, implicit_interests |-> <<>>,
     relationship_context |-> "unknown", action_items |-> <<>>,
     sentiment |-> "neutral", domains |-> <<>>]

\* JSON objects a response text can hold
JsonObject(content) ==
    IF content = "full"
    THEN [explicit_topics |-> <<"budget">>, implicit_interests |-> <<"diving">>,
          relationship_context |-> "colleague", action_items |-> <<"review">>,
          sentiment |-> "positive", domains |-> <<"work">>]
    ELSE [explicit_topics |-> <<"budget">>, sentiment |-> "positive"]

\* batch_processor.py:216-273 parse_themes: raises unless the first text block
\* holds a JSON object; missing fields are filled with the defaults.
ParseRaises(content) == content \notin {"full", "partial"}

parse_themes(content) ==
    LET themes == JsonObject(content)
    IN [f \in RequiredFields |->
            IF f \in DOMAIN themes THEN themes[f] ELSE empty_themes[f]]

\* an entry that would come from the parser in every case
ResultEntryParsedOnly(r) == parse_themes(r.content)

\* batch_processor.py:194-207: the entry of one result
ResultEntry(r) ==
    IF r.type = "succeeded"
    THEN IF ParseRaises(r.content) THEN empty_themes ELSE parse_themes(r.content)
    ELSE empty_themes

\* a collection that would keep the succeeded results only
CollectSucceededOnly(stream) ==
    LET ok == { k \in DOMAIN stream : stream[k].type = "succeeded" }
    IN [id \in { stream[k].custom_id : k \in ok } |->
            ResultEntry(stream[CHOOSE k \in ok : stream[k].custom_id = id])]

\* batch_processor.py:192-209: results[custom_id] for every result of the stream
CollectResults(stream) ==
    [id \in { stream[k].custom_id : k \in DOMAIN stream } |->
        ResultEntry(stream[SetMax({ k \in DOMAIN stream : stream[k].custom_id = id })])]

\* One result per request of the batch, streamed in any order
Streams ==
    UNION { { s \in [1..Cardinality(ids) ->
                      [custom_id : ids, type : ResultTypes, content : Contents]] :
                /\ \A a, b \in DOMAIN s : a # b => s[a].custom_id # s[b].custom_id
                /\ \A a \in DOMAIN s : s[a].type # "succeeded" => s[a].content = "no_content" }
            : ids \in { x \in SUBSET CorrelationIds : x # {} /\ Cardinality(x) <= MaxBatch } }

PollIdle ==
    /\ batch = [submitted |-> {}, stream |-> <<>>, status |-> "none", final |-> "none"]
    /\ poll = [state |-> "idle", attempts |-> 0, exc |-> "", results |-> <<>>]

ThemesIdle ==
    /\ email_tags = {}
    /\ email_notes = {}
    /\ theme_loop = [state |-> "idle", email_batch |-> <<>>, classifier |-> <<>>,
                     exc |-> ""]

MergeIdle ==
    /\ contacts = {}
    /\ merge = [calls |-> 0, contacts |-> <<>>, returned |-> {}]

NoCall ==
    [method |-> "", ids |-> 0, state |-> "idle", attempt_number |-> 0,
     events |-> <<>>, outcomes |-> <<>>, exc |-> ""]

ClientIdle == client = NoCall

PollInit ==
    /\ \E s \in Streams, f \in FinalStatuses :
          batch = [submitted |-> { s[k].custom_id : k \in DOMAIN s }, stream |-> s,
                   status |-> "in_progress", final |-> f]
    /\ poll = [state |-> "polling", attempts |-> 0, exc |-> "", results |-> <<>>]

\* the classifier finishes the batch
BatchEnds ==
    /\ batch.status = "in_progress"
    /\ batch' = [batch EXCEPT !.status = batch.final]
    /\ UNCHANGED poll
    /\ UNCHANGED <<jobvars, limvars, themevars, mergevars, clientvars>>

\* batch_processor.py:123-214: one attempt of poll_batch_results under
\* @retry(stop=stop_after_attempt(60), reraise=True), which retries on any
\* exception
\* a retry policy with no stop condition
StopNever(attempt_number) == FALSE

\* batch_processor.py:124: stop_after_attempt(60)
StopAfterAttemptReached(attempt_number) == attempt_number >= StopAfterAttempt

PollAttempt ==
    /\ poll.state = "polling"
    /\ LET n == poll.attempts + 1
           exc == IF batch.status = "in_progress" THEN "Batch still processing"
                  ELSE "Batch processing failed with status"
       IN IF batch.status = "ended"
          THEN poll' = [state |-> "returned", attempts |-> n, exc |-> "",
                        results |-> CollectResults(batch.stream)]
          ELSE IF StopAfterAttemptReached(n)
          THEN poll' = [poll EXCEPT !.state = "raised", !.attempts = n, !.exc = exc]
          ELSE poll' = [poll EXCEPT !.attempts = n, !.exc = exc]
    /\ UNCHANGED batch
    /\ UNCHANGED <<jobvars, limvars, themevars, mergevars, clientvars>>

(***************************************************************************)
(* Specifications                                                          *)
(***************************************************************************)
Init == JobInit(Mailboxes) /\ LimIdle /\ PollIdle /\ ThemesIdle /\ MergeIdle /\ ClientIdle

Next ==
    \/ \E u \in Users, ls \in LabelSets : StartScan(u, ls)
    \/ \E t \in TaskIds : Pickup(t)
    \/ \E t \in TaskIds : CreateJob(t)
    \/ \E t \in TaskIds : LoadAccounts(t)
    \/ \E t \in TaskIds : EmailsBegin(t)
    \/ \E t \in TaskIds : AccountResume(t)
    \/ \E t \in TaskIds, list_ok \in BOOLEAN, insert_ok \in BOOLEAN :
            FetchPage(t, list_ok, insert_ok)
    \/ \E t \in TaskIds : EmailsEnd(t)
    \/ \E t \in TaskIds : ThemesBegin(t)
    \/ \E t \in TaskIds : VaultBegin(t)
    \/ \E t \in TaskIds : VaultGenerate(t)
    \/ \E t \in TaskIds : WorkerLost(t)
    \/ \E t \in TaskIds : Terminate(t)
    \/ \E j \in JobIds : CancelJob(j)
    \/ GuardianObserve
    \/ GuardianKill
    \/ \E a \in Labels : RevokeCredentials(a)

Spec == Init /\ [][Next]_vars

(***************************************************************************)
(* Progress.  A worker that holds a task runs it to its return or raise,   *)
(* and the broker hands a queued task to a worker (celery_app.py:19-40);   *)
(* the guardian's monitor_loop checks every check_interval seconds for as  *)
(* long as its process runs (autonomous_guardian.py:236-280).  Requests,   *)
(* worker losses and terminations are the environment's and need not       *)
(* happen.                                                                 *)
(***************************************************************************)
WorkerStep ==
    \/ \E t \in TaskIds : Pickup(t)
    \/ \E t \in TaskIds : CreateJob(t)
    \/ \E t \in TaskIds : LoadAccounts(t)
    \/ \E t \in TaskIds : EmailsBegin(t)
    \/ \E t \in TaskIds : AccountResume(t)
    \/ \E t \in TaskIds, list_ok \in BOOLEAN, insert_ok \in BOOLEAN :
            FetchPage(t, list_ok, insert_ok)
    \/ \E t \in TaskIds : EmailsEnd(t)
    \/ \E t \in TaskIds : ThemesBegin(t)
    \/ \E t \in TaskIds : VaultBegin(t)
    \/ \E t \in TaskIds : VaultGenerate(t)

GuardianStep == GuardianObserve \/ GuardianKill

SpecLive == Init /\ [][Next]_vars /\ WF_vars(WorkerStep) /\ WF_vars(GuardianStep)

\* the same runs with no guardian process
SpecLiveWorker == Init /\ [][Next]_vars /\ WF_vars(WorkerStep)

NoMail == { [personal |-> <<>>, main |-> <<>>] }

InitLimiter == JobInit(NoMail) /\ LimIdle /\ PollIdle /\ ThemesIdle /\ MergeIdle /\ ClientIdle

NextLimiter ==
    \/ \E c \in Callers, n \in TokenRequests : AcquireRead(c, n)
    \/ \E c \in Callers : AcquireRefill(c)
    \/ \E c \in Callers : AcquireTake(c)
    \/ Tick

SpecLimiter == InitLimiter /\ [][NextLimiter]_vars

\* one caller asking for one token at a time
NextBurst ==
    \/ AcquireReadWithin("w1", 1, MaxBurst)
    \/ AcquireRefill("w1")
    \/ AcquireTake("w1")
    \/ Tick

SpecBurst == InitLimiter /\ [][NextBurst]_vars

\* caller w1 waits for a token while caller w2 takes tokens
NextWait ==
    \/ \E timeout \in 0..MaxClock : WaitStart("w1", timeout)
    \/ WaitCheck("w1")
    \/ WaitResult("w1")
    \/ \E next_tick \in BOOLEAN : WaitSleep("w1", next_tick)
    \/ \E n \in TokenRequests : AcquireRead("w2", n)
    \/ \E c \in Callers : AcquireRefill(c)
    \/ \E c \in Callers : AcquireTake(c)

SpecWait == InitLimiter /\ [][NextWait]_vars

InitPoll == JobInit(NoMail) /\ LimIdle /\ PollInit /\ ThemesIdle /\ MergeIdle /\ ClientIdle

NextPoll ==
    \/ BatchEnds
    \/ PollAttempt

SpecPoll == InitPoll /\ [][NextPoll]_vars

\* Start requests racing with the workers: several tasks of one user, no
\* process loss.
NextStart ==
    \/ \E u \in Users, ls \in LabelSets : StartScanWithin(u, ls, MaxStarts)
    \/ \E t \in TaskIds : Pickup(t)
    \/ \E t \in TaskIds : CreateJob(t)
    \/ \E t \in TaskIds : LoadAccounts(t)
    \/ \E t \in TaskIds : EmailsBegin(t)
    \/ \E t \in TaskIds : AccountResume(t)
    \/ \E t \in TaskIds, list_ok \in BOOLEAN, insert_ok \in BOOLEAN :
            FetchPage(t, list_ok, insert_ok)
    \/ \E t \in TaskIds : EmailsEnd(t)
    \/ \E t \in TaskIds : ThemesBegin(t)
    \/ \E t \in TaskIds : VaultBegin(t)
    \/ \E t \in TaskIds : VaultGenerate(t)
    \/ \E j \in JobIds : CancelJob(j)

SpecStart == Init /\ [][NextStart]_vars

(***************************************************************************)
(* The task run for any arguments: scan_gmail_task is registered by name   *)
(* (tasks.py:84-87) and takes the user id and the labels it is sent; the   *)
(* checks of start_scan are not repeated by the queue.                     *)
(***************************************************************************)
AnyUsers == Users \cup {"u0"}

EnqueueTask(user, labels) ==
    /\ Len(tasks) < MaxStarts
    /\ tasks' = Append(tasks, [user |-> user, labels |-> labels, state |-> "queued",
                               deliveries |-> 0, revoked |-> FALSE,
                               crashed_in_fetch |-> FALSE, fetched_once |-> FALSE])
    /\ exec' = Append(exec, IdleExec)
    /\ raised' = Append(raised, "")
    /\ UNCHANGED <<limvars, pollvars, themevars, mergevars, clientvars>>
    /\ UNCHANGED <<accounts_active, mailbox, emails, jobs, vault_initialized,
                   guardian_target, cancelled_ok>>

NextTask ==
    \/ \E u \in AnyUsers, ls \in LabelSets : EnqueueTask(u, ls)
    \/ \E a \in Labels : RevokeCredentials(a)
    \/ \E t \in TaskIds : Pickup(t)
    \/ \E t \in TaskIds : CreateJob(t)
    \/ \E t \in TaskIds : LoadAccounts(t)
    \/ \E t \in TaskIds : EmailsBegin(t)
    \/ \E t \in TaskIds : AccountResume(t)
    \/ \E t \in TaskIds, list_ok \in BOOLEAN, insert_ok \in BOOLEAN :
            FetchPage(t, list_ok, insert_ok)
    \/ \E t \in TaskIds : EmailsEnd(t)
    \/ \E t \in TaskIds : ThemesBegin(t)
    \/ \E t \in TaskIds : VaultBegin(t)
    \/ \E t \in TaskIds : VaultGenerate(t)

SpecTask == Init /\ [][NextTask]_vars

(***************************************************************************)
(* The insert statement of the emails phase on its own: pages of Email     *)
(* rows built from fetched messages (tasks.py:253-268, 292-311), in any     *)
(* order and from any number of jobs.  A row's id is a fresh uuid: here the *)
(* message it was built from and the fetch that built it.                  *)
(***************************************************************************)
FetchedRows == [account : Labels, mid : 1..3, fetch : 1..2]

EmailRow(r) ==
    [id |-> <<r.account, r.mid, r.fetch>>, account |-> r.account, mid |-> r.mid,
     date |-> r.mid + 1]

Pages ==
    UNION { [1..n -> { EmailRow(r) : r \in FetchedRows }] : n \in 1..MaxPageRows }

InsertPage(rows) ==
    /\ emails' = InsertOnConflictDoNothing(emails, rows)
    /\ UNCHANGED <<limvars, pollvars, themevars, mergevars, clientvars>>
    /\ UNCHANGED <<accounts_active, mailbox, jobs, tasks, exec, raised,
                   vault_initialized, guardian_target, cancelled_ok>>

NextInsert == \E rows \in Pages : InsertPage(rows)

InitInsert == JobInit(NoMail) /\ LimIdle /\ PollIdle /\ ThemesIdle /\ MergeIdle /\ ClientIdle

SpecInsert == InitInsert /\ [][NextInsert]_vars

(***************************************************************************)
(* The theme loop over one batch (tasks.py:357-394), on its own: the       *)
(* batch is a slice of all_emails, Email objects the run has built; the    *)
(* store holds, for each of them, the row the insert made, a row of an     *)
(* earlier run under the same natural key (the insert was skipped), or     *)
(* nothing (the insert was rolled back).  classifier is what the service   *)
(* would answer for each request.                                          *)
(***************************************************************************)
claude_batch_size == 100

ExcBatchTooLarge == "ValueError: Batch size exceeds limit"
ExcEmptyBatch == "ValueError: Cannot submit empty batch"

\* batch_processor.py:57-72 submit_batch as tasks.py:364 calls it: the size
\* checks, then email["id"] on the first element, an Email object
submit_batch(email_batch) ==
    IF Len(email_batch) > claude_batch_size THEN ExcBatchTooLarge
    ELSE IF email_batch = <<>> THEN ExcEmptyBatch
    ELSE ExcSubscript

\* batch_processor.py:286-306 process_emails_sync: nothing is polled when
\* the submission raises
process_emails_sync(email_batch) == submit_batch(email_batch)

EmailObjects == [id : {<<1, 1>>, <<1, 2>>}, account : {"personal"}, mid : 1..2, date : {2}]

EmailBatches ==
    { b \in UNION { [1..n -> EmailObjects] : n \in 1..MaxBatch } :
        \A i, j \in DOMAIN b : i # j => b[i].id # b[j].id }

\* the rows the store may hold for the messages of a batch
StoresFor(b) ==
    LET rows == { b[k] : k \in DOMAIN b }
                  \cup { [b[k] EXCEPT !.id = <<0, b[k].mid>>] : k \in DOMAIN b }
    IN { st \in SUBSET rows :
           \A r1, r2 \in st : (r1.account = r2.account /\ r1.mid = r2.mid) => r1 = r2 }

InitThemes ==
    /\ accounts_active = [a \in Labels |-> TRUE]
    /\ mailbox \in NoMail
    /\ jobs = <<>> /\ tasks = <<>> /\ exec = <<>> /\ raised = <<>>
    /\ vault_initialized = FALSE /\ guardian_target = None /\ cancelled_ok = {}
    /\ LimIdle /\ PollIdle /\ MergeIdle /\ ClientIdle
    /\ email_tags = {} /\ email_notes = {}
    /\ \E b \in EmailBatches :
          /\ emails \in StoresFor(b)
          /\ \E answers \in [DOMAIN b -> {"full", "partial"}] :
                theme_loop = [state |-> "ready", email_batch |-> b,
                              classifier |-> answers, exc |-> ""]

\* tasks.py:357-394 for one batch: process_emails_sync raises before any
\* request is made, so the zip over its result and the tag rows are not reached
ThemeLoop ==
    /\ theme_loop.state = "ready"
    /\ theme_loop' = [theme_loop EXCEPT !.state = "raised",
                                        !.exc = process_emails_sync(theme_loop.email_batch)]
    /\ UNCHANGED <<email_tags, email_notes>>
    /\ UNCHANGED <<jobvars, limvars, pollvars, mergevars, clientvars>>

NextThemes == ThemeLoop

SpecThemes == InitThemes /\ [][NextThemes]_vars

(***************************************************************************)
(* Contact merging (services/gmail/contact_merger.py).  A text is a        *)
(* sequence of characters; Unset stands for a key the dictionary does not  *)
(* have and for None, NoCount for a missing email_count, 0 for a missing   *)
(* last_contact_at.                                                        *)
(***************************************************************************)
Unset == <<"unset">>
NoCount == 0 - 1
NoStamp == 0

Whitespace == {" "}
LowerOf == [ch \in {"A", "X", "Y"} |->
               IF ch = "A" THEN "a" ELSE IF ch = "X" THEN "x" ELSE "y"]

\* str.strip(): the characters between the first and the last non-blank one
strip(text) ==
    LET inked == { k \in DOMAIN text : text[k] \notin Whitespace }
    IN IF inked = {} THEN <<>>
       ELSE SubSeq(text, CHOOSE k \in inked : \A m \in inked : k <= m,
                         CHOOSE k \in inked : \A m \in inked : m <= k)

\* str.lower()
lower(text) ==
    [k \in DOMAIN text |-> IF text[k] \in DOMAIN LowerOf THEN LowerOf[text[k]] ELSE text[k]]

\* dict.get(key, default)
Get(value, missing, default) == IF value = missing THEN default ELSE value

\* a grouping key that keeps the address as it was written
NormalizeNothing(contact) == Get(contact.email, Unset, <<>>)

\* contact_merger.py:55: contact.get("email", "").strip().lower()
Normalize(contact) == lower(strip(Get(contact.email, Unset, <<>>)))

\* contact_merger.py:52-58: the keys of contact_groups in insertion order
GroupKeys(raw) ==
    LET RECURSIVE Keys(_, _)
        Keys(k, acc) ==
            IF k > Len(raw) THEN acc
            ELSE LET email == Normalize(raw[k])
                 IN IF email = <<>> \/ \E m \in DOMAIN acc : acc[m] = email
                    THEN Keys(k + 1, acc)
                    ELSE Keys(k + 1, Append(acc, email))
    IN Keys(1, <<>>)

\* contact_merger.py:58: the members of one group, in input order
GroupOf(raw, email) ==
    LET member(c) == Normalize(c) = email IN SelectSeq(raw, member)

\* every member's label, repeated or not
AllSources(contact_list) ==
    LET labelled(c) == c.account_source # "" IN
    [k \in DOMAIN SelectSeq(contact_list, labelled) |->
        SelectSeq(contact_list, labelled)[k].account_source]

\* contact_merger.py:113-120: the labels in first-seen order, each once
UniqueSources(contact_list) ==
    LET RECURSIVE Collect(_, _)
        Collect(k, acc) ==
            IF k > Len(contact_list) THEN acc
            ELSE LET source == contact_list[k].account_source
                 IN IF source # "" /\ ~ \E m \in DOMAIN acc : acc[m] = source
                    THEN Collect(k + 1, Append(acc, source))
                    ELSE Collect(k + 1, acc)
    IN Collect(1, <<>>)

\* a total that takes the count of the first member only
FirstEmailCount(contact_list) == Get(contact_list[1].email_count, NoCount, 0)

\* contact_merger.py:122-123: sum(contact.get("email_count", 0) ...)
TotalEmailCount(contact_list) ==
    LET RECURSIVE Sum(_)
        Sum(k) == IF k > Len(contact_list) THEN 0
                  ELSE Get(contact_list[k].email_count, NoCount, 0) + Sum(k + 1)
    IN Sum(1)

\* contact_merger.py:155-159: sorted(..., key = last_contact_at or
\* datetime.min, reverse=True); the sort is stable, so members with equal
\* keys keep their input order
SortedByLastContact(contact_list) ==
    LET RECURSIVE Sort(_)
        Sort(rest) ==
            IF rest = {} THEN <<>>
            ELSE LET first == CHOOSE k \in rest : \A m \in rest :
                                 \/ contact_list[k].last_contact_at >
                                        contact_list[m].last_contact_at
                                 \/ /\ contact_list[k].last_contact_at =
                                           contact_list[m].last_contact_at
                                    /\ k <= m
                 IN <<contact_list[first]>> \o Sort(rest \ {first})
    IN Sort(DOMAIN contact_list)

\* the first non-empty value of a text field, trimmed, or Unset
FirstNonEmpty(contact_list, field) ==
    LET filled == { k \in DOMAIN contact_list :
                      /\ contact_list[k][field] # Unset
                      /\ strip(contact_list[k][field]) # <<>> }
    IN IF filled = {} THEN Unset
       ELSE strip(contact_list[CHOOSE k \in filled : \A m \in filled : k <= m][field])

\* a name taken in input order, whatever the timestamps
ResolveNameUnsorted(contact_list) == FirstNonEmpty(contact_list, "name")

\* contact_merger.py:144-167 _resolve_name
ResolveName(contact_list) == FirstNonEmpty(SortedByLastContact(contact_list), "name")

\* contact_merger.py:170-185 _resolve_phone
ResolvePhone(contact_list) == FirstNonEmpty(contact_list, "phone")

\* contact_merger.py:188-203 _resolve_last_contact
ResolveLastContact(contact_list) ==
    LET timestamps == { contact_list[k].last_contact_at : k \in DOMAIN contact_list }
                         \ {NoStamp}
    IN IF timestamps = {} THEN NoStamp ELSE SetMax(timestamps)

\* contact_merger.py:103-141 _merge_contact_group
MergeContactGroup(contact_list, now) ==
    [name |-> ResolveName(contact_list),
     phone |-> ResolvePhone(contact_list),
     account_sources |-> UniqueSources(contact_list),
     email_count |-> TotalEmailCount(contact_list),
     last_contact_at |-> ResolveLastContact(contact_list),
     updated_at |-> now]

\* contact_merger.py:60-66: one merged record per group, in group order
MergedContacts(raw, now) ==
    [k \in DOMAIN GroupKeys(raw) |->
        [email |-> GroupKeys(raw)[k], user_id |-> "u1",
         merged |-> MergeContactGroup(GroupOf(raw, GroupKeys(raw)[k]), now)]]

\* a row of table contacts as a first insert makes it (models/contact.py)
NewContact(m) ==
    [user_id |-> m.user_id, email |-> m.email,
     name |-> m.merged.name, phone |-> m.merged.phone,
     account_sources |-> m.merged.account_sources,
     email_count |-> m.merged.email_count,
     last_contact_at |-> m.merged.last_contact_at,
     updated_at |-> m.merged.updated_at,
     notes |-> Unset, relationship_context |-> Unset]

\* an upsert that writes the whole row anew
ReplacedContact(row, m) == NewContact(m)

\* contact_merger.py:75-87: the columns ON CONFLICT DO UPDATE sets
UpdatedContact(row, m) ==
    [row EXCEPT !.name = m.merged.name, !.phone = m.merged.phone,
                !.account_sources = m.merged.account_sources,
                !.email_count = m.merged.email_count,
                !.last_contact_at = m.merged.last_contact_at,
                !.updated_at = m.merged.updated_at]

\* contact_merger.py:74-91: INSERT ... ON CONFLICT (user_id, email) DO UPDATE
Upsert(table, merged_contacts) ==
    LET touched(row) == \E k \in DOMAIN merged_contacts :
                            /\ merged_contacts[k].user_id = row.user_id
                            /\ merged_contacts[k].email = row.email
        hit(m) == { row \in table : row.user_id = m.user_id /\ row.email = m.email }
    IN { row \in table : ~touched(row) }
       \cup { IF hit(merged_contacts[k]) = {}
              THEN NewContact(merged_contacts[k])
              ELSE UpdatedContact(CHOOSE row \in hit(merged_contacts[k]) : TRUE,
                                  merged_contacts[k])
              : k \in DOMAIN merged_contacts }

\* contact_merger.py:23-100 merge_contacts_by_email: the table after the
\* call and the rows it returns
merge_contacts_by_email(table, raw, now) ==
    LET merged_contacts == MergedContacts(raw, now)
        after == IF raw = <<>> \/ merged_contacts = <<>> THEN table
                 ELSE Upsert(table, merged_contacts)
    IN [table |-> after,
        returned |-> IF raw = <<>> \/ merged_contacts = <<>> THEN {}
                     ELSE { row \in after : \E k \in DOMAIN merged_contacts :
                               row.email = merged_contacts[k].email }]

\* one call of merge_contacts_by_email
MergeContacts(raw) ==
    /\ LET out == merge_contacts_by_email(contacts, raw, merge.calls + 1)
       IN /\ contacts' = out.table
          /\ merge' = [calls |-> merge.calls + 1, contacts |-> raw,
                       returned |-> out.returned]
    /\ UNCHANGED <<jobvars, limvars, pollvars, themevars, clientvars>>

\* the raw records of the callers: lists of at most MaxContacts dictionaries
RawContact(emails_, names, sources, counts, stamps) ==
    [email : emails_, name : names, phone : {Unset}, account_source : sources,
     email_count : counts, last_contact_at : stamps]

ListsOf(S, n) == UNION { [1..k -> S] : k \in 0..n }

EmailA == <<"a", "@", "x">>
EmailAShouted == <<"A", "@", "X", " ">>
EmailY == <<"y", "@", "x">>
Blank == <<" ">>

\* merges of records that differ in address, label and count
MergeInputs ==
    ListsOf(RawContact({EmailA, EmailAShouted, EmailY, Blank, Unset}, {Unset},
                       {"personal", "procore-main", ""}, {NoCount, 2}, {NoStamp}),
            MaxContacts)

\* a caller that makes at most limit calls with lists of the given set
MergeWithin(inputs, limit) ==
    /\ merge.calls < limit
    /\ \E raw \in inputs : MergeContacts(raw)

InitMerge == JobInit(NoMail) /\ LimIdle /\ PollIdle /\ ThemesIdle /\ MergeIdle /\ ClientIdle

NextMerge == MergeWithin(MergeInputs, 1)

NameX == <<"x">>
NamePadded == <<" ", "y", " ">>

\* merges of records that differ in name and timestamp
NameInputs ==
    ListsOf(RawContact({EmailA, EmailAShouted}, {Unset, Blank, NameX, NamePadded},
                       {"personal"}, {NoCount}, {NoStamp, 1, 2}),
            MaxContacts)

NextMergeName == MergeWithin(NameInputs, 1)

SpecMergeName == InitMerge /\ [][NextMergeName]_vars

\* successive merges for one user, of records that differ in address and count
UpsertInputs ==
    ListsOf(RawContact({EmailA, EmailAShouted}, {Unset}, {"personal"},
                       {NoCount, 1, 2}, {NoStamp}),
            MaxContacts)

NextUpsert == MergeWithin(UpsertInputs, MaxMerges)

SpecUpsert == InitMerge /\ [][NextUpsert]_vars

SpecMerge == InitMerge /\ [][NextMerge]_vars

(***************************************************************************)
(* GmailClient (client.py) and the with_retry policy (rate_limiter.py):    *)
(* one call of a client method at a time.  Each invocation of the method   *)
(* body is one attempt; the limiter and the provider answer each attempt   *)
(* as the environment decides.  client.events keeps, per attempt, the      *)
(* token requests and provider requests the attempt made, in order.        *)
(***************************************************************************)
ClientMethods ==
    {"fetch_contacts", "fetch_emails_chunked", "fetch_message_batch", "get_message_body"}

\* client.py:83, 151, 197: the methods decorated with @with_retry
WithRetry == {"fetch_contacts", "fetch_emails_chunked", "fetch_message_batch"}

\* client.py:227
chunk_size == 50

\* rate_limiter.py:214 stop_after_attempt(5)
RetryAttempts == 5

\* sizes of the id lists handed to fetch_message_batch
IdCounts == {0, 1, 51, 250}

ExcRateLimitTimeout == "GmailRateLimitExceeded: could not acquire token within 60.0s"
ExcRateLimit429 == "GmailRateLimitExceeded: Gmail API rate limit"
ExcClient429 == "GmailClientError: HttpError 429"
ExcClient500 == "GmailClientError: HttpError 500"

WaitEvent(kwargs, tokens, result) ==
    [kind |-> "wait", kwargs |-> kwargs, tokens |-> tokens, result |-> result]

RequestEvent(result) ==
    [kind |-> "request", kwargs |-> {}, tokens |-> 0, result |-> result]

\* rate_limiter.py:131-154 as its caller sees it: a keyword the signature
\* does not bind raises TypeError; else the token is acquired or the wait
\* times out
wait_for_token(kwargs, tokens, wait_ok) ==
    IF ~WaitForTokenAccepts(kwargs)
    THEN [events |-> <<WaitEvent(kwargs, tokens, "TypeError")>>, exc |-> ExcWaitKwarg]
    ELSE IF wait_ok
    THEN [events |-> <<WaitEvent(kwargs, tokens, "granted")>>, exc |-> ""]
    ELSE [events |-> <<WaitEvent(kwargs, tokens, "timeout")>>, exc |-> ExcRateLimitTimeout]

\* request.execute() and the except HttpError clause around it
\* (client.py:147-148, 194-195, 282-287, 401-402)
execute(status) ==
    [events |-> <<RequestEvent(status)>>,
     exc |-> IF status = "ok" THEN ""
             ELSE IF status = "429" THEN ExcClient429 ELSE ExcClient500]

\* a method body that goes to the provider without asking the limiter
ExecuteUnthrottled(kwargs, tokens, wait_ok, status) == execute(status)

\* client.py:110, 178, 252, 384: the limiter wait is the first statement,
\* the request follows only if the wait returned
WaitThenExecute(kwargs, tokens, wait_ok, status) ==
    LET w == wait_for_token(kwargs, tokens, wait_ok)
    IN IF w.exc # "" THEN w
       ELSE LET r == execute(status)
            IN [events |-> w.events \o r.events, exc |-> r.exc]

\* client.py:228-229 range(0, len(message_ids), chunk_size)
NumChunks(n) == (n + chunk_size - 1) \div chunk_size

\* client.py:229 len(message_ids[i:i + chunk_size]) for the c-th chunk
ChunkLen(n, c) == IF c * chunk_size <= n THEN chunk_size ELSE n - (c - 1) * chunk_size

\* client.py:237-287 _fetch_batch_chunk: wait_for_token(tokens=len(message_ids))
fetch_batch_chunk(len, wait_ok, status) ==
    WaitThenExecute({"tokens"}, len, wait_ok, status)

\* client.py:228-232: the chunks in order; the first exception ends the loop.
\* The environment fails chunk env.fail_at, if any, as env says.
RECURSIVE FetchChunks(_, _, _)
FetchChunks(n, c, env) ==
    IF c > NumChunks(n) THEN [events |-> <<>>, exc |-> ""]
    ELSE LET bad == (c = env.fail_at)
             r == fetch_batch_chunk(ChunkLen(n, c),
                                    IF bad THEN env.wait_ok ELSE TRUE,
                                    IF bad THEN env.status ELSE "ok")
         IN IF r.exc # "" THEN r
            ELSE LET rest == FetchChunks(n, c + 1, env)
                 IN [events |-> r.events \o rest.events, exc |-> rest.exc]

\* one invocation of a method body (client.py:83-148, 151-195, 197-234, 371-402)
Invoke(method, n, env) ==
    IF method = "fetch_message_batch"
    THEN IF n = 0 THEN [events |-> <<>>, exc |-> ""] ELSE FetchChunks(n, 1, env)
    ELSE WaitThenExecute({}, 1, env.wait_ok, env.status)

\* rate_limiter.py:217-223: an error whose text holds "429" or "quota" is
\* replaced by GmailRateLimitExceeded, any other is re-raised as it is
Convert(exc) == IF exc = ExcClient429 THEN ExcRateLimit429 ELSE exc

\* a policy that allows one attempt more
RetryStopLater(attempt_number) == attempt_number >= RetryAttempts + 1

\* rate_limiter.py:214 stop=stop_after_attempt(5)
RetryStop(attempt_number) == attempt_number >= RetryAttempts

Envs ==
    [fail_at : 0..NumChunks(SetMax(IdCounts)), wait_ok : BOOLEAN,
     status : {"ok", "429", "500"}]

\* a caller starts a method
ClientCall(method, n) ==
    /\ client.state \in {"idle", "returned", "raised"}
    /\ client' = [NoCall EXCEPT !.method = method, !.ids = n, !.state = "calling"]
    /\ UNCHANGED <<jobvars, limvars, pollvars, themevars, mergevars>>

\* rate_limiter.py:211-226: one attempt of the wrapper; retry on every
\* Exception, reraise=True hands the last attempt's error to the caller.
\* get_message_body is not wrapped: its one attempt returns or raises.
ClientAttempt(env) ==
    /\ client.state = "calling"
    /\ LET a == client.attempt_number + 1
           r == Invoke(client.method, client.ids, env)
           wrapped == client.method \in WithRetry
           exc == IF wrapped THEN Convert(r.exc) ELSE r.exc
           state == IF exc = "" THEN "returned"
                    ELSE IF ~wrapped \/ RetryStop(a) THEN "raised" ELSE "calling"
       IN client' = [client EXCEPT !.attempt_number = a,
                                   !.events = Append(@, r.events),
                                   !.outcomes = Append(@, exc),
                                   !.state = state,
                                   !.exc = IF state = "raised" THEN exc ELSE ""]
    /\ UNCHANGED <<jobvars, limvars, pollvars, themevars, mergevars>>

NextClient ==
    \/ \E m \in ClientMethods \ {"fetch_message_batch"} : ClientCall(m, 0)
    \/ \E n \in IdCounts : ClientCall("fetch_message_batch", n)
    \/ \E env \in Envs : ClientAttempt(env)

SpecClient == InitMerge /\ [][NextClient]_vars


(***************************************************************************)
(* The page loop of the emails phase on its own (tasks.py:253-337): what   *)
(* the task does with the details of a page once the call of line 245 has  *)
(* returned them.  FetchedDetails is that call returning a dict for every  *)
(* listed id (client.py:228-234, 280-285).                                 *)
(***************************************************************************)
FetchedDetails(message_ids) == [exc |-> "", email_dicts |-> message_ids]

NextPage ==
    \/ \E u \in Users, ls \in LabelSets : StartScan(u, ls)
    \/ \E t \in TaskIds : Pickup(t)
    \/ \E t \in TaskIds : CreateJob(t)
    \/ \E t \in TaskIds : LoadAccounts(t)
    \/ \E t \in TaskIds : EmailsBegin(t)
    \/ \E t \in TaskIds : AccountResume(t)
    \/ \E t \in TaskIds, list_ok \in BOOLEAN, insert_ok \in BOOLEAN :
            FetchPageGiven(t, list_ok, insert_ok,
                           FetchedDetails(ListedPage(t).message_ids))
    \/ \E t \in TaskIds : EmailsEnd(t)
    \/ \E t \in TaskIds : ThemesBegin(t)
    \/ \E t \in TaskIds : VaultBegin(t)
    \/ \E t \in TaskIds : VaultGenerate(t)
    \/ \E t \in TaskIds : WorkerLost(t)

SpecPage == Init /\ [][NextPage]_vars

(***************************************************************************)
(* The upsert on a table that already holds contacts (contact_merger.py:   *)
(* 74-91): rows of the calling user and of another user, with the notes    *)
(* and relationship_context columns filled (models/contact.py:59-68).      *)
(***************************************************************************)
StoredContact(user, email) ==
    [user_id |-> user, email |-> email, name |-> NameX, phone |-> Unset,
     account_sources |-> <<"personal">>, email_count |-> 1,
     last_contact_at |-> NoStamp, updated_at |-> 0,
     notes |-> <<"met at the site visit">>, relationship_context |-> <<"client">>]

StoredTables ==
    SUBSET { StoredContact("u1", EmailA), StoredContact("u1", EmailY),
             StoredContact("u2", EmailA) }

FrameInputs ==
    ListsOf(RawContact({EmailAShouted, EmailY}, {Unset},
                       {"procore-main"}, {NoCount, 2}, {NoStamp}),
            MaxFrameContacts)

InitFrame ==
    /\ JobInit(NoMail) /\ LimIdle /\ PollIdle /\ ThemesIdle /\ ClientIdle
    /\ contacts \in StoredTables
    /\ merge = [calls |-> 0, contacts |-> <<>>, returned |-> {}]

NextFrame == MergeWithin(FrameInputs, MaxMerges)

SpecFrame == InitFrame /\ [][NextFrame]_vars

(***************************************************************************)
(* Properties                                                              *)
(***************************************************************************)

\* C1: the committed progress_pct of a job never decreases from its creation
\* until the job reaches a terminal status.
ProgressMonotonic ==
    [][\A j \in JobIds :
          jobs[j].status \in NonTerminal =>
              jobs'[j].progress_pct >= jobs[j].progress_pct]_vars

\* a job whose progress was committed at each phase start up to the vault phase
ProgressReachedVault ==
    \E j \in JobIds : jobs[j].status = "running" /\ jobs[j].progress_pct = VaultStartPct

\* C2: once a job's status is completed, failed or cancelled, no later
\* operation changes its status.
TerminalIsFinal ==
    [][\A j \in JobIds :
          jobs[j].status \in Terminal => jobs'[j].status = jobs[j].status]_vars

\* C3: in every reachable state each user has at most one job whose status
\* is queued or running.
OneActiveJobPerUser ==
    \A u \in Users : Cardinality(ExistingJob(u)) <= 1

\* C4: after cancel_job returned success for a job, a step of the execution
\* working on that job writes no message, no note file and no job-record update.
NoEffectAfterCancel ==
    [][\A j \in cancelled_ok :
          (exec[jobs[j].task].job = j /\ exec'[jobs[j].task] # exec[jobs[j].task]) =>
              /\ jobs'[j] = jobs[j]
              /\ emails' = emails
              /\ vault_initialized' = vault_initialized]_vars

ResumeFetchesAll ==
    \A t \in TaskIds :
        (/\ tasks[t].crashed_in_fetch
         /\ exec[t].pc = "done"
         /\ raised[t] # ExcProvider) =>
            \A k \in DOMAIN exec[t].accounts :
                LET a == exec[t].accounts[k]
                IN \A m \in DOMAIN MailboxOf(a) :
                      \E e \in emails : e.account = a /\ e.mid = MailboxOf(a)[m].mid

\* C7: over the time elapsed since the bucket was full, the tokens granted
\* to all callers together are at most max_tokens + refill_rate * T.
TokenBudget ==
    granted <= max_tokens + RefillPerTick * clock

\* C8: for a batch that ended, the mapping poll_batch_results returns has
\* exactly the submitted correlation ids as its keys.
PollKeySet ==
    poll.state = "returned" => DOMAIN poll.results = batch.submitted

\* poll returned for a batch mixing a failed item and an unparseable one
PollReturnedMixed ==
    /\ poll.state = "returned"
    /\ \E k \in DOMAIN batch.stream : batch.stream[k].type = "errored"
    /\ \E k \in DOMAIN batch.stream :
          batch.stream[k].type = "succeeded" /\ batch.stream[k].content = "bad_json"

PhaseForward ==
    [][\A j \in JobIds :
          PhaseRank(jobs'[j].phase) >= PhaseRank(jobs[j].phase)]_vars

\* a job that went through every phase start up to the vault phase
PhaseReachedVault ==
    \E j \in JobIds : jobs[j].phase = "vault"

\* a task of the user that is enqueued, or executing with no job row yet or
\* with a job row that is queued or running
ActiveTask(t) ==
    \/ tasks[t].state = "queued"
    \/ /\ tasks[t].state = "executing"
       /\ \/ exec[t].job = None
          \/ jobs[exec[t].job].status \in NonTerminal

\* C11: a start request issued while another job of the same user is queued
\* or running enqueues no task.
StartRefusedWhileActive ==
    [][Len(tasks') > Len(tasks) =>
          \A t \in TaskIds :
              tasks[t].user = tasks'[Len(tasks')].user => ~ActiveTask(t)]_vars

AcquireContract ==
    [][\A c \in Callers :
          (acq[c].pc = "take" /\ acq'[c].pc = "idle") =>
              /\ (acq'[c].result = "true") = (bucket.tokens >= acq[c].tokens)
              /\ acq'[c].result = "true" =>
                    bucket'.tokens = bucket.tokens - acq[c].tokens
              /\ acq'[c].result = "false" => bucket'.tokens = bucket.tokens]_vars

\* C15: with a single caller and a full bucket, max_tokens immediate
\* acquire(1) calls succeed and the next fails; after a wait of 1/refill_rate
\* seconds exactly one further acquire(1) succeeds and the one after it fails.
BurstThenRefill ==
    LET log == acq["w1"].log
        At(k, t) == log[k].start = t /\ log[k].end = t
        Drained == \A k \in 1..(max_tokens + 1) : At(k, 0)
    IN /\ \A k \in DOMAIN log :
             (\A i \in 1..k : At(i, 0)) =>
                 (log[k].result = "true") = (k <= max_tokens)
       /\ (Len(log) >= max_tokens + 2 /\ Drained /\ At(max_tokens + 2, 1)) =>
             log[max_tokens + 2].result = "true"
       /\ (Len(log) >= max_tokens + 3 /\ Drained /\ At(max_tokens + 2, 1)
             /\ At(max_tokens + 3, 1)) =>
             log[max_tokens + 3].result = "false"

\* the whole scenario has been played: drained at once, one tick, two calls
BurstScenarioPlayed ==
    LET log == acq["w1"].log
    IN /\ Len(log) = max_tokens + 3
       /\ \A k \in 1..(max_tokens + 1) : log[k].start = 0 /\ log[k].end = 0
       /\ \A k \in (max_tokens + 2)..(max_tokens + 3) : log[k].start = 1 /\ log[k].end = 1

\* C16: wait_for_token returns only after exactly one of its acquire
\* attempts succeeded, raises only once the timeout has elapsed with no
\* successful attempt, and makes a bounded number of attempts.
WaitContract ==
    LET w == acq["w1"].wait
    IN /\ w.pc = "returned" => (w.got = 1 /\ acq["w1"].result = "true")
       /\ w.pc = "raised" => (w.got = 0 /\ clock - w.start_time >= w.timeout)
       /\ w.pc \in {"check", "acquire", "sleep"} => w.got = 0
       /\ w.tries <= w.timeout * SleepsPerTick

\* a wait that returned after a failed attempt and a sleep
WaitReturnedAfterRetry ==
    /\ acq["w1"].wait.pc = "returned"
    /\ acq["w1"].wait.tries >= 2

\* C17: in an ended batch every item that failed remotely or whose response
\* does not parse is mapped to the default payload (empty lists, "unknown",
\* "neutral"), and every other item keeps its own parsed values.
BadItemsGetDefault ==
    poll.state = "returned" =>
        \A k \in DOMAIN batch.stream :
            LET r == batch.stream[k]
                e == poll.results[r.custom_id]
            IN IF r.type = "succeeded" /\ r.content \in {"full", "partial"}
               THEN /\ e.explicit_topics = <<"budget">>
                    /\ e.sentiment = "positive"
                    /\ e.relationship_context =
                          (IF r.content = "full" THEN "colleague" ELSE "unknown")
                    /\ e.domains = (IF r.content = "full" THEN <<"work">> ELSE <<>>)
               ELSE /\ e.explicit_topics = <<>>
                    /\ e.implicit_interests = <<>>
                    /\ e.action_items = <<>>
                    /\ e.domains = <<>>
                    /\ e.relationship_context = "unknown"
                    /\ e.sentiment = "neutral"

\* poll returned for a batch holding a well-formed item beside an expired one
PollReturnedGoodAndBad ==
    /\ poll.state = "returned"
    /\ \E k \in DOMAIN batch.stream :
          batch.stream[k].type = "succeeded" /\ batch.stream[k].content = "full"
    /\ \E k \in DOMAIN batch.stream : batch.stream[k].type = "expired"

\* C18: an attempt that observes a terminal batch status other than "ended"
\* fails the batch at once: poll raises, returns no mapping, and makes no
\* further attempt.
TerminalStatusFailsAtOnce ==
    [][(/\ poll.state = "polling"
        /\ batch.status \in FinalStatuses \ {"ended"}
        /\ poll'.attempts = poll.attempts + 1)
          => poll'.state = "raised"]_vars

RunEndsCompleted ==
    [][\A t \in TaskIds :
          (/\ tasks[t].state = "executing"
           /\ tasks[t].deliveries = 1
           /\ ~tasks[t].revoked
           /\ exec[t].job # None
           /\ jobs[exec[t].job].status = "running"
           /\ exec[t].job \notin cancelled_ok
           /\ exec[t].pc # "done"
           /\ exec'[t].pc = "done"
           /\ raised'[t] \notin {ExcProvider, ExcNoAccounts, ExcUserMissing})
             => /\ jobs'[exec[t].job].status = "completed"
                /\ jobs'[exec[t].job].phase = "completed"
                /\ jobs'[exec[t].job].progress_pct = 100
                /\ jobs'[exec[t].job].completed_at]_vars

PhaseFatalRecorded ==
    \A t \in TaskIds :
        (/\ exec[t].pc = "done"
         /\ \/ tasks[t].user \notin Users
            \/ raised[t] = ExcNoAccounts) =>
            /\ exec[t].job # None
            /\ jobs[exec[t].job].status = "failed"
            /\ jobs[exec[t].job].error_message \in {ExcUserMissing, ExcNoAccounts}
            /\ jobs[exec[t].job].emails_processed = 0
            /\ exec[t].all_emails = <<>>
            /\ emails = {}
            /\ tasks[t].state = "failed"
            /\ tasks[t].deliveries = 1

\* the same statement for the runs that find no active account only
NoAccountsRecorded ==
    \A t \in TaskIds :
        (exec[t].pc = "done" /\ raised[t] = ExcNoAccounts) =>
            /\ exec[t].job # None
            /\ jobs[exec[t].job].status = "failed"
            /\ jobs[exec[t].job].error_message = ExcNoAccounts

\* the address a raw address stands for, written out case by case
Canonical(email) ==
    IF email \in {EmailA, EmailAShouted} THEN <<"a", "@", "x">>
    ELSE IF email = EmailY THEN <<"y", "@", "x">>
    ELSE <<>>

\* the positions of the raw records that stand for an address
Members(raw, email) == { k \in DOMAIN raw : Canonical(raw[k].email) = email }

\* C24: one call of merge on an empty table returns and stores exactly one
\* contact per distinct trimmed, lower-cased address of its input, under
\* that address; records whose address is empty or missing give no contact.
OneContactPerAddress ==
    merge.calls = 1 =>
        LET raw == merge.contacts
            wanted == { Canonical(raw[k].email) : k \in DOMAIN raw } \ {<<>>}
        IN /\ { row.email : row \in merge.returned } = wanted
           /\ Cardinality(merge.returned) = Cardinality(wanted)
           /\ contacts = merge.returned

\* "a@x" and "A@X " merged beside a record with a blank address
MergedTwoSpellings ==
    /\ merge.calls = 1
    /\ \E i, j, k \in DOMAIN merge.contacts :
          /\ merge.contacts[i].email = EmailA
          /\ merge.contacts[j].email = EmailAShouted
          /\ merge.contacts[k].email = Blank
    /\ { row.email : row \in merge.returned } = {<<"a", "@", "x">>}

\* C25: the account_sources of a merged contact hold every label of its
\* group once, in the order in which the labels first appear in the input.
SourcesOrderedUnique ==
    merge.calls = 1 =>
        \A row \in merge.returned :
            LET raw == merge.contacts
                group == Members(raw, row.email)
                labels == { raw[k].account_source : k \in group } \ {""}
                first(l) == CHOOSE k \in group :
                               /\ raw[k].account_source = l
                               /\ \A m \in group : raw[m].account_source = l => k <= m
                got == row.account_sources
            IN /\ { got[i] : i \in DOMAIN got } = labels
               /\ Len(got) = Cardinality(labels)
               /\ \A i, j \in DOMAIN got : i < j => first(got[i]) < first(got[j])

\* a group whose labels are procore-main, personal, procore-main, in this order
MergedRepeatedSource ==
    /\ merge.calls = 1
    /\ Len(merge.contacts) = 3
    /\ \A k \in 1..3 : merge.contacts[k].email \in {EmailA, EmailAShouted}
    /\ merge.contacts[1].account_source = "procore-main"
    /\ merge.contacts[2].account_source = "personal"
    /\ merge.contacts[3].account_source = "procore-main"
    /\ \E row \in merge.returned : row.account_sources = <<"procore-main", "personal">>

\* C26: the email_count of a merged contact is the sum of the counts of its
\* group, a record without a count adding nothing.
CountIsSum ==
    merge.calls = 1 =>
        \A row \in merge.returned :
            LET raw == merge.contacts
                group == Members(raw, row.email)
                counted == { k \in group : raw[k].email_count # NoCount }
                RECURSIVE Total(_)
                Total(S) == IF S = {} THEN 0
                            ELSE LET k == CHOOSE m \in S : TRUE
                                 IN raw[k].email_count + Total(S \ {k})
            IN row.email_count = Total(counted)

\* a group of two records with a count and one without
MergedMissingCount ==
    /\ merge.calls = 1
    /\ \E row \in merge.returned :
          /\ row.email_count = 4
          /\ Cardinality(Members(merge.contacts, row.email)) = 3
          /\ \E k \in Members(merge.contacts, row.email) :
                merge.contacts[k].email_count = NoCount

\* a name without the blanks around it, written out case by case
Trimmed(name) ==
    IF name = NameX THEN <<"x">> ELSE IF name = NamePadded THEN <<"y">> ELSE <<>>

EmailCountNeverDrops ==
    [][\A old \in contacts : \A new \in contacts' :
          (new.user_id = old.user_id /\ new.email = old.email)
              => new.email_count >= old.email_count]_vars

RateLimitClass ==
    {"GmailRateLimitExceeded: could not acquire token within 60.0s",
     "GmailRateLimitExceeded: Gmail API rate limit"}

WaitPrecedesEveryRequest ==
    /\ \A a \in DOMAIN client.events : \A k \in DOMAIN client.events[a] :
          client.events[a][k].kind = "request"
              => /\ k > 1
                 /\ client.events[a][k - 1].kind = "wait"
                 /\ client.events[a][k - 1].result = "granted"
    /\ \A a \in DOMAIN client.events :
          (a > 1 /\ client.outcomes[a - 1] \in RateLimitClass)
              => /\ client.events[a] # <<>>
                 /\ client.events[a][1].kind = "wait"

\* a listing whose first attempt met a 429 and whose second attempt waited
\* and reached the provider
RetriedListingWaitedAgain ==
    /\ client.method = "fetch_emails_chunked"
    /\ Len(client.events) = 2
    /\ client.outcomes[1] = "GmailRateLimitExceeded: Gmail API rate limit"
    /\ Len(client.events[2]) = 2
    /\ client.events[2][2].kind = "request"

(***************************************************************************)
(* C33: a wrapped method is invoked at most five times; nothing is invoked *)
(* after a success, and when the call raises, five attempts were made and  *)
(* the error is the fifth attempt's.                                       *)
(***************************************************************************)
RetryAtMostFive ==
    client.method \in {"fetch_contacts", "fetch_emails_chunked", "fetch_message_batch"}
        => /\ client.attempt_number <= 5
           /\ Len(client.outcomes) = client.attempt_number
           /\ \A a \in 1..(Len(client.outcomes) - 1) : client.outcomes[a] # ""
           /\ client.state = "returned"
                 => client.outcomes[Len(client.outcomes)] = ""
           /\ client.state = "calling"
                 => \A a \in DOMAIN client.outcomes : client.outcomes[a] # ""
           /\ client.state = "raised"
                 => /\ client.attempt_number = 5
                    /\ client.outcomes[5] # ""
                    /\ client.exc = client.outcomes[5]

\* five failed attempts, the last of another kind than the first
RaisedLastOfFive ==
    /\ client.method = "fetch_contacts"
    /\ client.state = "raised"
    /\ client.attempt_number = 5
    /\ client.outcomes[1] = "GmailClientError: HttpError 500"
    /\ client.exc = "GmailRateLimitExceeded: Gmail API rate limit"

(***************************************************************************)
(* C35: a batch fetch that the limiter and the provider never refuse       *)
(* returns after one request per hundred ids (three for 250) and one       *)
(* granted wait per request.                                               *)
(***************************************************************************)
Refused(e) == e.result \in {"timeout", "429", "500"}

EventsOf(kind) ==
    { <<a, k>> \in (1..5) \X (1..10) :
         /\ a \in DOMAIN client.events
         /\ k \in DOMAIN client.events[a]
         /\ client.events[a][k].kind = kind }

BatchSplitsByHundred ==
    (/\ client.method = "fetch_message_batch"
     /\ client.state \in {"returned", "raised"}
     /\ \A a \in DOMAIN client.events : \A k \in DOMAIN client.events[a] :
            ~Refused(client.events[a][k]))
        => /\ client.state = "returned"
           /\ Cardinality(EventsOf("request")) = (client.ids + 99) \div 100
           /\ \A p \in EventsOf("wait") : client.events[p[1]][p[2]].result = "granted"
           /\ Cardinality(EventsOf("wait")) = Cardinality(EventsOf("request"))

(***************************************************************************)
(* C39: every token request of the fetch path passes only keywords the     *)
(* limiter's wait declares and asks for at most max_tokens tokens.         *)
(***************************************************************************)
TokenRequestsAcceptable ==
    \A a \in DOMAIN client.events : \A k \in DOMAIN client.events[a] :
        client.events[a][k].kind = "wait"
            => /\ client.events[a][k].kwargs \subseteq {"timeout"}
               /\ client.events[a][k].tokens <= 3


DefaultAccountOrder ==
    \A t \in DOMAIN exec :
        (tasks[t].labels = {"personal", "procore-main"} /\ exec[t].accounts # <<>>)
            => exec[t].accounts = <<"personal", "procore-main">>


(***************************************************************************)
(* C37: every job row is consistent with its status: completed goes with   *)
(* phase completed, 100 percent and a completion time; failed and          *)
(* cancelled go with a completion time and an error message; queued and    *)
(* running go with no completion time.                                     *)
(***************************************************************************)
JobRecordConsistent ==
    \A j \in DOMAIN jobs :
        /\ jobs[j].status = "completed"
              => /\ jobs[j].phase = "completed"
                 /\ jobs[j].progress_pct = 100
                 /\ jobs[j].completed_at
        /\ jobs[j].status \in {"failed", "cancelled"}
              => /\ jobs[j].completed_at
                 /\ jobs[j].error_message # ""
        /\ jobs[j].status \in {"queued", "running"}
              => ~jobs[j].completed_at


UpsertFrame ==
    [][merge'.calls > merge.calls =>
          LET raw == merge'.contacts
              keys == { Canonical(raw[k].email) : k \in DOMAIN raw } \ {<<>>}
          IN /\ \A row \in contacts :
                   IF row.user_id = "u1" /\ row.email \in keys
                   THEN \E new \in contacts' :
                           /\ new.user_id = row.user_id
                           /\ new.email = row.email
                           /\ new.notes = row.notes
                           /\ new.relationship_context = row.relationship_context
                   ELSE row \in contacts'
             /\ \A new \in contacts' :
                   new \in contacts \/ (new.user_id = "u1" /\ new.email \in keys)]_vars

\* a stored contact with notes that a merge has updated, beside the contact
\* of another user under the same address
UpdatedContactKeptNotes ==
    /\ merge.calls >= 1
    /\ \E row \in contacts :
          /\ row.user_id = "u1"
          /\ row.email = <<"a", "@", "x">>
          /\ row.updated_at >= 1
          /\ row.account_sources = <<"procore-main">>
          /\ row.notes = <<"met at the site visit">>
    /\ \E row \in contacts : row.user_id = "u2" /\ row.updated_at = 0

====
